---- MODULE Spec2Model ----
(***************************************************************************)
(* Isherwood Developments API: the property collection, the five request   *)
(* handlers of main.py (list, get, create, chat, seed) and the Property    *)
(* schema of schemas.py.  read_root and test_database touch no document of *)
(* the collection and are left out.  database.py is not part of the        *)
(* sources at hand: create_document and get_documents follow the           *)
(* specification's words for them.                                         *)
(*                                                                         *)
(* Representation.  A Python str is a TLA+ string.  Optional[T] is a       *)
(* sequence of length at most one: <<>> is None and <<v>> is the value v.  *)
(* price and size_sqft are whole numbers, lot_acres is held in hundredths  *)
(* of an acre (350 is 3.50).  The bullet of the highlight lines, which is  *)
(* not an ASCII character, is written "*".                                 *)
(***************************************************************************)
EXTENDS Integers, Sequences, FiniteSets, TLC

VARIABLES
    store,      \* db["property"]: the documents in insertion order
    nextId,     \* the next _id the store assigns
    last,       \* the request handled last and its response
    created,    \* the successful create responses so far: <<id, Property>>
    pc,         \* concurrent requests: each worker's position in its handler
    req,        \* concurrent requests: each worker's request
    seedIdx,    \* concurrent requests: samples the worker's seed has inserted
    resp        \* concurrent requests: each worker's response

vars == <<store, nextId, last, created, pc, req, seedIdx, resp>>

-----------------------------------------------------------------------------
(* Bounds of the model.                                                    *)

\* the collection is not grown beyond this many documents
MaxStore == 5
\* the limits of a list request are 0..MaxLimit and the default
MaxLimit == 2
\* the number of requests that may be in flight at once
NumWorkers == 2

\* limit: int = 50
DefaultLimit == 50

-----------------------------------------------------------------------------
(* Python values.                                                          *)

None == <<>>
Some(v) == <<v>>
IsNone(o) == o = <<>>
Val(o) == o[1]

Min(a, b) == IF a <= b THEN a ELSE b

UpperLetters == "ABCDEFGHIJKLMNOPQRSTUVWXYZ"
LowerLetters == "abcdefghijklmnopqrstuvwxyz"

CharAt(s, i) == SubSeq(s, i, i)

\* the place of c in letters, 0 when it is not one of them
LetterIndex(letters, c) ==
    IF \E i \in 1..Len(letters) : CharAt(letters, i) = c
    THEN CHOOSE i \in 1..Len(letters) : CharAt(letters, i) = c
    ELSE 0

IsCased(c) == LetterIndex(UpperLetters, c) > 0 \/ LetterIndex(LowerLetters, c) > 0

LowerChar(c) ==
    LET i == LetterIndex(UpperLetters, c)
    IN IF i > 0 THEN CharAt(LowerLetters, i) ELSE c

UpperChar(c) ==
    LET i == LetterIndex(LowerLetters, c)
    IN IF i > 0 THEN CharAt(UpperLetters, i) ELSE c

\* str.lower()
RECURSIVE LowerFrom(_, _)
LowerFrom(s, i) ==
    IF i > Len(s) THEN ""
    ELSE LowerChar(CharAt(s, i)) \o LowerFrom(s, i + 1)

Lower(s) == LowerFrom(s, 1)

\* str.title(): a cased character is upper-cased after an uncased one (or at
\* the start) and lower-cased after a cased one
RECURSIVE TitleFrom(_, _, _)
TitleFrom(s, i, prevCased) ==
    IF i > Len(s) THEN ""
    ELSE LET c == CharAt(s, i)
         IN (IF prevCased THEN LowerChar(c) ELSE UpperChar(c))
                \o TitleFrom(s, i + 1, IsCased(c))

Title(s) == TitleFrom(s, 1, FALSE)

\* kw in q
Contains(q, kw) ==
    \E i \in 0..(Len(q) - Len(kw)) : SubSeq(q, i + 1, i + Len(kw)) = kw

\* any(kw in q for kw in kws)
ContainsAny(q, kws) == \E k \in 1..Len(kws) : Contains(q, kws[k])

\* ", ".join(parts) and "\n".join(lines)
RECURSIVE StrJoin(_, _)
StrJoin(sep, parts) ==
    IF Len(parts) = 0 THEN ""
    ELSE IF Len(parts) = 1 THEN parts[1]
    ELSE parts[1] \o sep \o StrJoin(sep, Tail(parts))

\* the digits of n in groups of three, separated by commas
RECURSIVE GroupThousands(_)
GroupThousands(d) ==
    IF Len(d) <= 3 THEN d
    ELSE GroupThousands(SubSeq(d, 1, Len(d) - 3)) \o ","
            \o SubSeq(d, Len(d) - 2, Len(d))

\* f"{n:,.0f}" of a whole number
FmtComma0(n) == GroupThousands(ToString(n))

\* f"{a:.2f}" of a number held in hundredths
FmtFixed2(h) ==
    ToString(h \div 100) \o "."
        \o ToString((h % 100) \div 10) \o ToString(h % 10)

\* highlights[:n]
Take(s, n) == SubSeq(s, 1, Min(n, Len(s)))

-----------------------------------------------------------------------------
(* schemas.py: Property.                                                   *)

Categories == {"land", "residential", "commercial", "development", "hospitality"}
DevelopmentTypes == {"high rise", "mid rise", "low rise"}
CommercialTypes == {"plaza", "office", "medical", "industrial"}
HospitalityTypes == {"hotel", "apartment", "retirement"}
Statuses == {"available", "leased", "sold", "under development"}

\* the value of every field a Property(...) call or a request body leaves out
Omitted ==
    [country |-> None, images |-> <<>>, development_type |-> None,
     commercial_type |-> None, hospitality_type |-> None, size_sqft |-> None,
     lot_acres |-> None, year_built |-> None, status |-> None, price |-> None,
     highlights |-> <<>>, coordinates |-> None]

\* Optional[Literal[...]] = None
OptIn(o, S) == IsNone(o) \/ Val(o) \in S
\* Optional[float] = Field(None, ge=0)
OptGe0(o) == IsNone(o) \/ Val(o) >= 0

\* the body of POST /properties passes the Property model
ValidProperty(given) ==
    LET raw == given @@ Omitted IN
    /\ raw.category \in Categories
    /\ OptIn(raw.development_type, DevelopmentTypes)
    /\ OptIn(raw.commercial_type, CommercialTypes)
    /\ OptIn(raw.hospitality_type, HospitalityTypes)
    /\ OptGe0(raw.size_sqft)
    /\ OptGe0(raw.lot_acres)
    /\ OptIn(raw.status, Statuses)
    /\ OptGe0(raw.price)

\* Property(**given): the fields given, with the defaults of the fields left out
Property(given) ==
    LET raw == given @@ Omitted
    IN [raw EXCEPT
            !.country = IF IsNone(raw.country) THEN "Canada" ELSE Val(raw.country),
            !.status = IF IsNone(raw.status) THEN "available" ELSE Val(raw.status)]

-----------------------------------------------------------------------------
(* main.py: the four samples of seed_demo.                                 *)

Samples ==
    << Property([name |-> "Isherwood Plaza", slug |-> "isherwood-plaza",
                 summary |-> "Modern retail plaza with excellent frontage",
                 description |-> "A high-visibility retail plaza with ample parking and strong tenant mix.",
                 address |-> "123 Main St", city |-> "Cambridge", province |-> "ON",
                 country |-> Some("Canada"), images |-> <<>>,
                 category |-> "commercial", commercial_type |-> Some("plaza"),
                 size_sqft |-> Some(45000), lot_acres |-> Some(350),
                 year_built |-> Some(2010), status |-> Some("available"),
                 price |-> Some(12500000),
                 highlights |-> <<"Prime corner exposure", "Ample surface parking",
                                  "Strong traffic counts">>]),
       Property([name |-> "Riverside Towers", slug |-> "riverside-towers",
                 summary |-> "Waterfront high-rise residential development",
                 description |-> "Proposed twin-tower high rise with panoramic river views.",
                 address |-> "500 Riverside Dr", city |-> "Kitchener", province |-> "ON",
                 country |-> Some("Canada"), images |-> <<>>,
                 category |-> "development", development_type |-> Some("high rise"),
                 size_sqft |-> None, lot_acres |-> Some(220),
                 year_built |-> None, status |-> Some("under development"),
                 price |-> None,
                 highlights |-> <<"Waterfront location", "Transit adjacent",
                                  "Zoning in progress">>]),
       Property([name |-> "Isherwood Industrial Park", slug |-> "isherwood-industrial-park",
                 summary |-> "Modern industrial bays with clear heights",
                 description |-> "Flex industrial with loading docks and ample marshalling.",
                 address |-> "200 Industry Rd", city |-> "Guelph", province |-> "ON",
                 country |-> Some("Canada"), images |-> <<>>,
                 category |-> "commercial", commercial_type |-> Some("industrial"),
                 size_sqft |-> Some(120000), lot_acres |-> Some(800),
                 status |-> Some("available"), price |-> Some(28900000),
                 highlights |-> <<"32' clear height", "ESFR sprinklers",
                                  "Multiple dock doors">>]),
       Property([name |-> "Grandview Retirement Residence",
                 slug |-> "grandview-retirement-residence",
                 summary |-> "Thoughtfully designed retirement community",
                 description |-> "A full-service retirement home with wellness amenities.",
                 address |-> "88 Grandview Ave", city |-> "Waterloo", province |-> "ON",
                 country |-> Some("Canada"), images |-> <<>>,
                 category |-> "hospitality", hospitality_type |-> Some("retirement"),
                 status |-> Some("available"), price |-> None,
                 highlights |-> <<"On-site healthcare", "Chef-led dining",
                                  "Landscaped courtyards">>]) >>

-----------------------------------------------------------------------------
(* main.py: chat_about_property, the responder.                            *)

PriceKeywords == <<"price", "cost", "listing">>
SizeKeywords == <<"size", "square", "sqft">>
TypeKeywords == <<"zoning", "use", "type">>
StatusKeywords == <<"status", "available">>
\* mutant of OverviewKeywords: the second list of keywords lacks "sqft"
OverviewKeywordsShort ==
    <<"price", "cost", "listing", "size", "square", "zoning", "use",
      "type", "status", "available">>

OverviewKeywords ==
    <<"price", "cost", "listing", "size", "square", "sqft", "zoning", "use",
      "type", "status", "available">>

\* Python truth of an Optional number and of an Optional str
TruthyNum(o) == ~IsNone(o) /\ Val(o) # 0
TruthyStr(o) == ~IsNone(o) /\ Val(o) # ""

OpeningLine(doc) ==
    "You're asking about " \o doc.name \o " in " \o doc.city
        \o ". Here's what I can share:"

PriceLines(doc, q) ==
    IF ContainsAny(q, PriceKeywords)
    THEN IF ~IsNone(doc.price)
         THEN <<"- Current guidance price is $" \o FmtComma0(Val(doc.price)) \o ".">>
         ELSE <<"- Pricing is available upon request.">>
    ELSE <<>>

\* mutant of SizeLines: the size block as an elif of the price block
SizeLinesElif(doc, q) ==
    IF ContainsAny(q, SizeKeywords) /\ ~ContainsAny(q, PriceKeywords)
    THEN (IF TruthyNum(doc.size_sqft)
          THEN <<"- Interior size is approx. " \o FmtComma0(Val(doc.size_sqft)) \o " sq ft.">>
          ELSE <<>>)
         \o
         (IF TruthyNum(doc.lot_acres)
          THEN <<"- Lot size is approx. " \o FmtFixed2(Val(doc.lot_acres)) \o " acres.">>
          ELSE <<>>)
    ELSE <<>>

SizeLines(doc, q) ==
    IF ContainsAny(q, SizeKeywords)
    THEN (IF TruthyNum(doc.size_sqft)
          THEN <<"- Interior size is approx. " \o FmtComma0(Val(doc.size_sqft)) \o " sq ft.">>
          ELSE <<>>)
         \o
         (IF TruthyNum(doc.lot_acres)
          THEN <<"- Lot size is approx. " \o FmtFixed2(Val(doc.lot_acres)) \o " acres.">>
          ELSE <<>>)
    ELSE <<>>

TypeLines(doc, q) ==
    IF ContainsAny(q, TypeKeywords)
    THEN LET parts ==
                (IF doc.category # "" THEN <<Title(doc.category)>> ELSE <<>>)
             \o (IF TruthyStr(doc.development_type)
                 THEN <<Title(Val(doc.development_type))>> ELSE <<>>)
             \o (IF TruthyStr(doc.commercial_type)
                 THEN <<Title(Val(doc.commercial_type))>> ELSE <<>>)
             \o (IF TruthyStr(doc.hospitality_type)
                 THEN <<Title(Val(doc.hospitality_type))>> ELSE <<>>)
         IN IF Len(parts) > 0
            THEN <<"- Property type: " \o StrJoin(", ", parts)>>
            ELSE <<>>
    ELSE <<>>

StatusLines(doc, q) ==
    IF ContainsAny(q, StatusKeywords)
    THEN <<"- Status: " \o (IF doc.status # "" THEN Title(doc.status) ELSE "Available")>>
    ELSE <<>>

OverviewLines(doc, q) ==
    IF ~ContainsAny(q, OverviewKeywords)
    THEN IF Len(doc.highlights) > 0
         THEN <<"Key highlights:">>
              \o [i \in 1..Len(Take(doc.highlights, 5)) |-> "  * " \o doc.highlights[i]]
         ELSE <<"Let me know if you'd like details on price, size, zoning, or availability.">>
    ELSE <<>>

\* the reply of chat_about_property for the document found
ChatReply(doc, message) ==
    LET q == Lower(message)
        lines == <<OpeningLine(doc)>>
                    \o PriceLines(doc, q)
                    \o SizeLines(doc, q)
                    \o TypeLines(doc, q)
                    \o StatusLines(doc, q)
                    \o OverviewLines(doc, q)
    IN StrJoin("\n", lines)

-----------------------------------------------------------------------------
(* The record store: the collection "property".                            *)

\* str(ObjectId)
IdStr(id) == ToString(id)

\* db["property"].find_one({"slug": slug}): the first document with the slug
FindOne(coll, slug) ==
    IF \E i \in 1..Len(coll) : coll[i].slug = slug
    THEN Some(coll[CHOOSE i \in 1..Len(coll) :
                     /\ coll[i].slug = slug
                     /\ \A j \in 1..(i - 1) : coll[j].slug # slug])
    ELSE None

\* db["property"].count_documents({})
CountDocuments(coll) == Len(coll)

\* the keys of a document that hold an Optional value
OptionalKeys == {"development_type", "commercial_type", "hospitality_type"}

\* a document passes an exact-match query on string values
MatchesQuery(doc, query) ==
    \A k \in DOMAIN query :
        IF k \in OptionalKeys
        THEN doc[k] = Some(query[k])
        ELSE doc[k] = query[k]

\* get_documents(collection, query, limit): up to limit matching documents
GetDocuments(coll, query, limit) ==
    Take(SelectSeq(coll, LAMBDA d : MatchesQuery(d, query)), limit)

\* create_document(collection, data): the collection after the insert and
\* the new document's id as a string
CreateDocument(coll, id, data) ==
    [coll |-> Append(coll, data @@ [_id |-> id]), inserted_id |-> IdStr(id)]

-----------------------------------------------------------------------------
(* main.py: the handlers.                                                  *)

FilterKeys ==
    {"category", "development_type", "commercial_type", "hospitality_type",
     "city", "status"}

\* mutant of BuildQuery: the status parameter is not put in the query
BuildQueryNoStatus(params) ==
    [k \in {k \in FilterKeys \ {"status"} : TruthyStr(params[k])} |-> Val(params[k])]

\* the query of list_properties: the parameters that are neither None nor ""
BuildQuery(params) ==
    [k \in {k \in FilterKeys : TruthyStr(params[k])} |-> Val(params[k])]

\* p["id"] = str(p.pop("_id", ""))
WithId(doc) ==
    [k \in (DOMAIN doc \ {"_id"}) \cup {"id"} |->
        IF k = "id" THEN IdStr(doc._id) ELSE doc[k]]

\* the response of list_properties
ListPropertiesResp(coll, params, limit) ==
    LET props == GetDocuments(coll, BuildQuery(params), limit)
    IN [status |-> 200,
        body |-> [items |-> [i \in 1..Len(props) |-> WithId(props[i])]]]

\* mutant of GetPropertyResp: find_one without the slug
GetPropertyRespFirst(coll, slug) ==
    IF Len(coll) = 0
    THEN [status |-> 404, body |-> [detail |-> "Property not found"]]
    ELSE [status |-> 200, body |-> [doc |-> WithId(coll[1])]]

\* the response of get_property
GetPropertyResp(coll, slug) ==
    LET doc == FindOne(coll, slug)
    IN IF IsNone(doc)
       THEN [status |-> 404, body |-> [detail |-> "Property not found"]]
       ELSE [status |-> 200, body |-> [doc |-> WithId(Val(doc))]]

\* mutant of SlugExists: the check looks the slug up under the key "name"
SlugExistsByName(coll, slug) == \E i \in 1..Len(coll) : coll[i].name = slug

\* the existence check of create_property
SlugExists(coll, slug) == ~IsNone(FindOne(coll, slug))

\* the response of chat_about_property
ChatResp(coll, slug, message) ==
    LET doc == FindOne(coll, slug)
    IN IF IsNone(doc)
       THEN [status |-> 404, body |-> [detail |-> "Property not found"]]
       ELSE [status |-> 200, body |-> [reply |-> ChatReply(Val(doc), message)]]

\* mutant of AlreadySeeded: the gate passes a collection of one document
AlreadySeededOffByOne(count) == count > 1

\* the gate of seed_demo: the collection holds a document
AlreadySeeded(count) == count > 0

\* mutant of InsertSamples: the loop stops one sample short
RECURSIVE InsertSamplesShort(_, _, _)
InsertSamplesShort(coll, id, from) ==
    IF from >= Len(Samples) THEN coll
    ELSE InsertSamplesShort(CreateDocument(coll, id, Samples[from]).coll, id + 1, from + 1)

\* for p in samples: create_document("property", p), from sample number from
RECURSIVE InsertSamples(_, _, _)
InsertSamples(coll, id, from) ==
    IF from > Len(Samples) THEN coll
    ELSE InsertSamples(CreateDocument(coll, id, Samples[from]).coll, id + 1, from + 1)

-----------------------------------------------------------------------------
(* The requests the model draws.                                           *)

\* bodies of POST /properties: two with one slug, one with a sample's slug,
\* two that the Property model rejects
Payloads ==
    { [name |-> "Lot A", slug |-> "lot-a", summary |-> "Vacant lot",
       description |-> "Serviced vacant lot.", address |-> "1 First St",
       city |-> "Guelph", province |-> "ON", category |-> "land",
       size_sqft |-> Some(0), lot_acres |-> Some(0), price |-> Some(0)],
      [name |-> "Maple Court", slug |-> "lot-a", summary |-> "Townhomes",
       description |-> "Townhome block.", address |-> "2 Second St",
       city |-> "", province |-> "ON", country |-> Some("USA"),
       images |-> <<"a.png", "b.png">>, category |-> "residential",
       development_type |-> Some("low rise"), year_built |-> Some(1999),
       status |-> Some("sold"), price |-> Some(999),
       highlights |-> <<"h1", "h2", "h3", "h4", "h5", "h6">>,
       coordinates |-> Some([lat |-> 43, lng |-> -80])],
      [name |-> "Plaza Annex", slug |-> "isherwood-plaza", summary |-> "Annex",
       description |-> "Annex of the plaza.", address |-> "125 Main St",
       city |-> "Cambridge", province |-> "ON", category |-> "commercial",
       commercial_type |-> Some("office"), size_sqft |-> Some(1234567),
       lot_acres |-> Some(5), status |-> Some("leased")],
      [name |-> "Castle", slug |-> "castle", summary |-> "Castle",
       description |-> "A castle.", address |-> "3 Third St",
       city |-> "Guelph", province |-> "ON", category |-> "castle"],
      [name |-> "Lot B", slug |-> "lot-a", summary |-> "Vacant lot",
       description |-> "Vacant lot.", address |-> "4 Fourth St",
       city |-> "Guelph", province |-> "ON", category |-> "land",
       price |-> Some(-1)] }

\* slugs of GET /properties/{slug} and POST /properties/{slug}/chat
Slugs ==
    {"lot-a", "isherwood-plaza", "riverside-towers", "isherwood-industrial-park",
     "grandview-retirement-residence", "no-such-slug"}

\* every query parameter of GET /properties left out
NoParams == [k \in FilterKeys |-> None]

\* query parameters of GET /properties
Params ==
    { p @@ NoParams : p \in
        { [category |-> None],
          [category |-> Some("commercial")],
          [category |-> Some("")],
          [city |-> Some("Guelph")],
          [city |-> Some("")],
          [status |-> Some("available")],
          [category |-> Some("commercial"), status |-> Some("available")],
          [category |-> Some("commercial"), commercial_type |-> Some("plaza")],
          [development_type |-> Some("high rise")],
          [hospitality_type |-> Some("retirement"), city |-> Some("")],
          [category |-> Some("land"), city |-> Some("Cambridge")] } }

Limits == 0..MaxLimit \cup {DefaultLimit}

\* one question for every set of topics, the topics named in the reverse of
\* the order the responder answers them in
TopicQuestions ==
    { (IF m[4] THEN "Available? " ELSE "")
        \o (IF m[3] THEN "zoning, " ELSE "")
        \o (IF m[2] THEN "SQFT and " ELSE "")
        \o (IF m[1] THEN "what does it cost" ELSE "hi")
      : m \in [1..4 -> BOOLEAN] }

\* the messages drawn between the other requests
SomeMessages == {"hi", "What's the price and size?", "Is it available and what type?"}

\* messages of POST /properties/{slug}/chat
Messages ==
    TopicQuestions
    \cup {"", " ", "price", "cost", "listing", "size", "square", "sqft",
          "zoning", "use", "type", "status", "available", "PRICE",
          "pricing", "a house", "prototype", "unavailable",
          "Tell me about zoning"}
    \cup SomeMessages

-----------------------------------------------------------------------------
(* Requests handled one at a time: each action is one whole handler.       *)

Workers == 1..NumWorkers

NoResp == [op |-> "none", req |-> [none |-> TRUE], status |-> 0, body |-> [none |-> TRUE]]

Init ==
    /\ store = <<>>
    /\ nextId = 1
    /\ last = NoResp
    /\ created = {}
    /\ pc = [w \in Workers |-> "idle"]
    /\ req = [w \in Workers |-> [none |-> TRUE]]
    /\ seedIdx = [w \in Workers |-> 0]
    /\ resp = [w \in Workers |-> NoResp]

Respond(op, request, r) ==
    [op |-> op, req |-> request, status |-> r.status, body |-> r.body]

\* GET /properties
ListProperties ==
    \E params \in Params, limit \in Limits :
        /\ last' = Respond("list", [params |-> params, limit |-> limit],
                           ListPropertiesResp(store, params, limit))
        /\ UNCHANGED <<store, nextId, created, pc, req, seedIdx, resp>>

\* mutant of GetProperty: find_one_and_delete in the place of find_one
GetPropertyAndDelete ==
    \E slug \in Slugs :
        /\ last' = Respond("get", [slug |-> slug], GetPropertyResp(store, slug))
        /\ store' = SelectSeq(store, LAMBDA d : d.slug # slug)
        /\ UNCHANGED <<nextId, created, pc, req, seedIdx, resp>>

\* GET /properties/{slug}
GetProperty ==
    \E slug \in Slugs :
        /\ last' = Respond("get", [slug |-> slug], GetPropertyResp(store, slug))
        /\ UNCHANGED <<store, nextId, created, pc, req, seedIdx, resp>>

\* POST /properties
CreateProperty ==
    \E given \in Payloads :
        IF ~ValidProperty(given)
        THEN /\ last' = Respond("create", [payload |-> given],
                                [status |-> 422, body |-> [detail |-> "validation error"]])
             /\ UNCHANGED <<store, nextId, created, pc, req, seedIdx, resp>>
        ELSE IF SlugExists(store, Property(given).slug)
        THEN /\ last' = Respond("create", [payload |-> given],
                                [status |-> 400, body |-> [detail |-> "Slug already exists"]])
             /\ UNCHANGED <<store, nextId, created, pc, req, seedIdx, resp>>
        ELSE /\ Len(store) < MaxStore
             /\ LET ins == CreateDocument(store, nextId, Property(given))
                IN /\ store' = ins.coll
                   /\ nextId' = nextId + 1
                   /\ last' = Respond("create", [payload |-> given],
                                      [status |-> 201, body |-> [id |-> ins.inserted_id]])
                   /\ created' = created \cup {<<ins.inserted_id, Property(given)>>}
             /\ UNCHANGED <<pc, req, seedIdx, resp>>

\* POST /properties/{slug}/chat, the request drawn from slugs and messages
Chat(slugs, messages) ==
    \E slug \in slugs, message \in messages :
        /\ last' = Respond("chat", [slug |-> slug, message |-> message],
                           ChatResp(store, slug, message))
        /\ UNCHANGED <<store, nextId, created, pc, req, seedIdx, resp>>

ChatAboutProperty == Chat(Slugs, SomeMessages)

\* POST /seed
SeedDemo ==
    LET count == CountDocuments(store)
    IN IF AlreadySeeded(count)
       THEN /\ last' = Respond("seed", [none |-> TRUE],
                               [status |-> 200,
                                body |-> [message |-> "Collection already seeded",
                                          count |-> count]])
            /\ UNCHANGED <<store, nextId, created, pc, req, seedIdx, resp>>
       ELSE /\ Len(store) + Len(Samples) <= MaxStore
            /\ store' = InsertSamples(store, nextId, 1)
            /\ nextId' = nextId + Len(Samples)
            /\ last' = Respond("seed", [none |-> TRUE],
                               [status |-> 200,
                                body |-> [message |-> "Seeded demo properties",
                                          count |-> Len(Samples)]])
            /\ UNCHANGED <<created, pc, req, seedIdx, resp>>

Next ==
    \/ ListProperties
    \/ GetProperty
    \/ CreateProperty
    \/ ChatAboutProperty
    \/ SeedDemo

Spec == Init /\ [][Next]_vars

-----------------------------------------------------------------------------
(* The responder as a function of (document, message): the collection      *)
(* holds one document, any of the samples and of the valid payloads, and   *)
(* every message is asked of it.                                           *)

Documents ==
    {Samples[i] : i \in 1..Len(Samples)}
        \cup {Property(given) : given \in {g \in Payloads : ValidProperty(g)}}

InitResponder ==
    /\ store \in {CreateDocument(<<>>, 1, d).coll : d \in Documents}
    /\ nextId = 2
    /\ last = NoResp
    /\ created = {}
    /\ pc = [w \in Workers |-> "idle"]
    /\ req = [w \in Workers |-> [none |-> TRUE]]
    /\ seedIdx = [w \in Workers |-> 0]
    /\ resp = [w \in Workers |-> NoResp]

ChatAboutAnything == Chat({store[1].slug, "no-such-slug"}, Messages)

NextResponder == ChatAboutAnything

SpecResponder == InitResponder /\ [][NextResponder]_vars

-----------------------------------------------------------------------------
(* Requests in flight together.  A handler runs up to its next call of the *)
(* store and the store serves one call at a time: the existence check and  *)
(* the insert of create_property are two steps, the count of seed_demo and *)
(* each of its inserts are steps.                                          *)

\* bodies of the POST /properties requests in flight together: one with the
\* slug of a sample, one that the Property model rejects
RacePayloads == {given \in Payloads : given.name \in {"Plaza Annex", "Castle"}}

\* create_property up to and including its find_one
CreateCheck(w) ==
    /\ pc[w] = "idle"
    /\ \E given \in RacePayloads :
        IF ~ValidProperty(given)
        THEN /\ resp' = [resp EXCEPT ![w] =
                    Respond("create", [payload |-> given],
                            [status |-> 422, body |-> [detail |-> "validation error"]])]
             /\ UNCHANGED <<pc, req>>
        ELSE IF SlugExists(store, Property(given).slug)
        THEN /\ resp' = [resp EXCEPT ![w] =
                    Respond("create", [payload |-> given],
                            [status |-> 400, body |-> [detail |-> "Slug already exists"]])]
             /\ UNCHANGED <<pc, req>>
        ELSE /\ pc' = [pc EXCEPT ![w] = "create_insert"]
             /\ req' = [req EXCEPT ![w] = [payload |-> given]]
             /\ UNCHANGED resp
    /\ UNCHANGED <<store, nextId, last, created, seedIdx>>

\* mutant of CreateInsert: the insert is refused when the slug is stored
CreateInsertUnique(w) ==
    /\ pc[w] = "create_insert"
    /\ Len(store) < MaxStore
    /\ IF SlugExists(store, req[w].payload.slug)
       THEN /\ resp' = [resp EXCEPT ![w] =
                   Respond("create", req[w],
                           [status |-> 400, body |-> [detail |-> "Slug already exists"]])]
            /\ UNCHANGED <<store, nextId>>
       ELSE LET ins == CreateDocument(store, nextId, Property(req[w].payload))
            IN /\ store' = ins.coll
               /\ nextId' = nextId + 1
               /\ resp' = [resp EXCEPT ![w] =
                     Respond("create", req[w],
                             [status |-> 201, body |-> [id |-> ins.inserted_id]])]
    /\ pc' = [pc EXCEPT ![w] = "idle"]
    /\ UNCHANGED <<last, created, req, seedIdx>>

\* create_property from its create_document to its return
CreateInsert(w) ==
    /\ pc[w] = "create_insert"
    /\ Len(store) < MaxStore
    /\ LET ins == CreateDocument(store, nextId, Property(req[w].payload))
       IN /\ store' = ins.coll
          /\ nextId' = nextId + 1
          /\ resp' = [resp EXCEPT ![w] =
                Respond("create", req[w],
                        [status |-> 201, body |-> [id |-> ins.inserted_id]])]
    /\ pc' = [pc EXCEPT ![w] = "idle"]
    /\ UNCHANGED <<last, created, req, seedIdx>>

\* seed_demo up to and including its count_documents
SeedCount(w) ==
    /\ pc[w] = "idle"
    /\ LET count == CountDocuments(store)
       IN IF AlreadySeeded(count)
          THEN /\ resp' = [resp EXCEPT ![w] =
                      Respond("seed", [none |-> TRUE],
                              [status |-> 200,
                               body |-> [message |-> "Collection already seeded",
                                         count |-> count]])]
               /\ UNCHANGED <<pc, req, seedIdx>>
          ELSE /\ pc' = [pc EXCEPT ![w] = "seed_insert"]
               /\ req' = [req EXCEPT ![w] = [none |-> TRUE]]
               /\ seedIdx' = [seedIdx EXCEPT ![w] = 0]
               /\ UNCHANGED resp
    /\ UNCHANGED <<store, nextId, last, created>>

\* one turn of the loop of seed_demo, and its return after the last turn
SeedInsert(w) ==
    /\ pc[w] = "seed_insert"
    /\ Len(store) < MaxStore
    /\ store' = CreateDocument(store, nextId, Samples[seedIdx[w] + 1]).coll
    /\ nextId' = nextId + 1
    /\ seedIdx' = [seedIdx EXCEPT ![w] = seedIdx[w] + 1]
    /\ IF seedIdx[w] + 1 = Len(Samples)
       THEN /\ pc' = [pc EXCEPT ![w] = "idle"]
            /\ resp' = [resp EXCEPT ![w] =
                   Respond("seed", [none |-> TRUE],
                           [status |-> 200,
                            body |-> [message |-> "Seeded demo properties",
                                      count |-> Len(Samples)]])]
       ELSE UNCHANGED <<pc, resp>>
    /\ UNCHANGED <<last, created, req>>

NextConcurrent ==
    \E w \in Workers :
        \/ CreateCheck(w)
        \/ CreateInsert(w)
        \/ SeedCount(w)
        \/ SeedInsert(w)

SpecConcurrent == Init /\ [][NextConcurrent]_vars

-----------------------------------------------------------------------------
(* Properties: the Listing Repository (create, get, list, seed).           *)

HasSlug(coll, slug) == \E i \in 1..Len(coll) : coll[i].slug = slug

IsPrefix(a, b) == Len(a) <= Len(b) /\ SubSeq(b, 1, Len(a)) = a

\* the step is a create request with a body the Property model accepts
ValidCreateStep == last'.op = "create" /\ ValidProperty(last'.req.payload)

\* C1 as stated: a create request whose slug is the slug of a stored Listing
\* fails with 400 "Slug already exists" and leaves the store as it was.
C1_AnyBodyConflict ==
    [][ (last'.op = "create" /\ HasSlug(store, last'.req.payload.slug))
            => /\ last'.status = 400
               /\ last'.body.detail = "Slug already exists"
               /\ store' = store ]_vars

\* C1 as amended: a create request whose slug is the slug of a stored Listing
\* leaves the store as it was; it fails with 400 "Slug already exists" when
\* its body is a valid Listing and with 422 when it is not.
C1_ConflictNoMutation ==
    [][ (last'.op = "create" /\ HasSlug(store, last'.req.payload.slug))
            => /\ store' = store
               /\ IF ValidProperty(last'.req.payload)
                  THEN last'.status = 400 /\ last'.body.detail = "Slug already exists"
                  ELSE last'.status = 422 ]_vars

\* a rejected create of a valid body whose slug a differing Listing holds
C1_Witness ==
    /\ last.op = "create"
    /\ last.status = 400
    /\ \E i \in 1..Len(store) :
        /\ store[i].slug = last.req.payload.slug
        /\ store[i].name # last.req.payload.name

\* C2: with requests handled one at a time from an empty store, no two stored
\* Listings have the same slug.
C2_SlugUnique ==
    \A i, j \in 1..Len(store) : store[i].slug = store[j].slug => i = j

\* a seeded store that has also taken a create, and has just rejected one
C2_Witness ==
    /\ Len(store) = Len(Samples) + 1
    /\ last.op = "create"
    /\ last.status = 400

\* C3: create of a valid Listing L whose slug is not in the store succeeds,
\* and every later get of L.slug returns L's fields with the non-empty id that
\* create returned, whatever was created in between.
C3_CreateGetRoundTrip ==
    /\ [][ (ValidCreateStep /\ ~HasSlug(store, last'.req.payload.slug))
              => /\ last'.status = 201
                 /\ <<last'.body.id, Property(last'.req.payload)>> \in created' ]_vars
    /\ [](\A e \in created :
            (last.op = "get" /\ last.req.slug = e[2].slug)
                => /\ last.status = 200
                   /\ last.body.doc = e[2] @@ [id |-> e[1]]
                   /\ Len(e[1]) > 0)

\* a get of a created Listing after another Listing was created behind it
C3_Witness ==
    /\ last.op = "get"
    /\ last.status = 200
    /\ Len(store) >= 2
    /\ store[1].slug = last.req.slug
    /\ \E e \in created : e[2].slug = last.req.slug /\ e[1] = last.body.doc.id

\* the documents of coll without their _id
Fields(coll) ==
    [i \in 1..Len(coll) |-> [k \in DOMAIN coll[i] \ {"_id"} |-> coll[i][k]]]

\* C4: a seed request on an empty collection inserts exactly the 4 samples
\* and reports 4; on a non-empty collection it inserts nothing and reports the
\* number of stored Listings.
C4_SeedGate ==
    [][ last'.op = "seed"
            => IF Len(store) = 0
               THEN /\ Len(store') = 4
                    /\ Fields(store') = Samples
                    /\ last'.body.count = 4
               ELSE /\ store' = store
                    /\ last'.body.count = Len(store) ]_vars

\* a second seed request
C4_Witness ==
    /\ last.op = "seed"
    /\ last.body.message = "Collection already seeded"
    /\ last.body.count = 4
    /\ Fields(store) = Samples

\* C5: the store only grows, a stored Listing keeps its place and its fields,
\* and list, get and chat leave the store as it was.
C5_ReadOnlyAfterCreation ==
    [][ /\ IsPrefix(store, store')
        /\ last'.op \in {"list", "get", "chat"} => store' = store ]_vars

\* a read of a store that holds both seeded and created Listings
C5_Witness ==
    /\ last.op \in {"list", "get", "chat"}
    /\ last.status = 200
    /\ Len(store) = Len(Samples) + 1

\* a query parameter that is set: given and not empty
IsSet(p) == p # None /\ p # Some("")

-----------------------------------------------------------------------------
(* Properties: the Listing Responder.                                      *)

\* reply.split("\n")
RECURSIVE SplitFrom(_, _)
SplitFrom(s, i) ==
    IF \E j \in i..Len(s) : CharAt(s, j) = "\n"
    THEN LET j == CHOOSE j \in i..Len(s) :
                    /\ CharAt(s, j) = "\n"
                    /\ \A k \in i..(j - 1) : CharAt(s, k) # "\n"
         IN <<SubSeq(s, i, j - 1)>> \o SplitFrom(s, j + 1)
    ELSE <<SubSeq(s, i, Len(s))>>

SplitLines(s) == SplitFrom(s, 1)

StartsWith(s, prefix) == Len(s) >= Len(prefix) /\ SubSeq(s, 1, Len(prefix)) = prefix

Topics == <<"price", "size", "type", "status">>

\* the keywords of a topic as the specification lists them
TopicWords(t) ==
    CASE t = "price" -> {"price", "cost", "listing"}
      [] t = "size" -> {"size", "square", "sqft"}
      [] t = "type" -> {"zoning", "use", "type"}
      [] t = "status" -> {"status", "available"}

\* one of the topic's keywords is a substring of the lower-cased message
TopicHit(t, message) == \E kw \in TopicWords(t) : Contains(Lower(message), kw)

\* the block a line of a reply belongs to, by the text the block's lines open with
LineKind(line) ==
    IF StartsWith(line, "- Current guidance price is $")
        \/ line = "- Pricing is available upon request." THEN "price"
    ELSE IF StartsWith(line, "- Interior size is approx. ")
        \/ StartsWith(line, "- Lot size is approx. ") THEN "size"
    ELSE IF StartsWith(line, "- Property type: ") THEN "type"
    ELSE IF StartsWith(line, "- Status: ") THEN "status"
    ELSE IF line = "Key highlights:" \/ StartsWith(line, "  * ")
        \/ line = "Let me know if you'd like details on price, size, zoning, or availability."
        THEN "overview"
    ELSE "opening"

\* the lines of a reply that belong to block kind
LinesOf(reply, kind) == SelectSeq(SplitLines(reply), LAMBDA l : LineKind(l) = kind)

\* the place of a topic in the order Price, Size, Zoning, Status
Rank(kind) == CHOOSE r \in 1..Len(Topics) : Topics[r] = kind

\* the stored Listing a successful chat was about
ChatDoc == store[CHOOSE i \in 1..Len(store) : store[i].slug = last.req.slug]

AnsweredChat == last.op = "chat" /\ last.status = 200

\* C7: a topic's lines are in the reply exactly when one of its keywords is
\* in the lower-cased question, and then they are the lines that topic gives
\* when asked alone, whatever else matches; the reply opens with the opening
\* line and the topics' lines follow in the order Price, Size, Zoning, Status.
C7_TopicsIndependent ==
    AnsweredChat =>
        LET reply == last.body.reply
            lines == SplitLines(reply)
            topical == SelectSeq(Tail(lines), LAMBDA l : LineKind(l) \in {"price", "size", "type", "status"})
        IN /\ lines[1] = OpeningLine(ChatDoc)
           /\ LineKind(lines[1]) = "opening"
           /\ \A r \in 1..Len(Topics) :
                IF TopicHit(Topics[r], last.req.message)
                THEN LinesOf(reply, Topics[r])
                        = LinesOf(ChatReply(ChatDoc, Topics[r]), Topics[r])
                ELSE LinesOf(reply, Topics[r]) = <<>>
           /\ \A i, j \in 1..Len(topical) :
                i < j => Rank(LineKind(topical[i])) <= Rank(LineKind(topical[j]))

\* a question that names all four topics, of a Listing that answers each
C7_Witness ==
    /\ AnsweredChat
    /\ \A r \in 1..Len(Topics) : TopicHit(Topics[r], last.req.message)
    /\ Len(LinesOf(last.body.reply, "size")) = 2
    /\ Len(SplitLines(last.body.reply)) = 6

\* the fallback block of a Listing
FallbackBlock(doc) ==
    IF doc.highlights = <<>>
    THEN <<"Let me know if you'd like details on price, size, zoning, or availability.">>
    ELSE <<"Key highlights:">>
            \o [i \in 1..Min(5, Len(doc.highlights)) |-> "  * " \o doc.highlights[i]]

\* C8: the fallback block (the highlights header with the first 5 highlights
\* at most, in stored order, or the prompt line) is in the reply if and only
\* if no keyword of the four topics is in the lower-cased question.
C8_FallbackExclusive ==
    AnsweredChat =>
        IF \E r \in 1..Len(Topics) : TopicHit(Topics[r], last.req.message)
        THEN LinesOf(last.body.reply, "overview") = <<>>
        ELSE SplitLines(last.body.reply) = <<OpeningLine(ChatDoc)>> \o FallbackBlock(ChatDoc)

\* a question on size of a Listing with no size: the opening line alone
C8_Witness ==
    /\ AnsweredChat
    /\ TopicHit("size", last.req.message)
    /\ IsNone(ChatDoc.size_sqft) /\ IsNone(ChatDoc.lot_acres)
    /\ SplitLines(last.body.reply) = <<OpeningLine(ChatDoc)>>

-----------------------------------------------------------------------------
(* Properties: requests in flight together.                                *)

\* worker w leaves the insert step of create_property
CreateInsertStep(w) == pc[w] = "create_insert" /\ pc'[w] # "create_insert"

\* C9: the existence check and the insert of create are separate steps: a
\* request that has passed the check inserts and returns success whatever the
\* store holds by then, so two requests with one slug can both insert.
C9_CheckThenInsert ==
    [][ \A w \in Workers :
            CreateInsertStep(w) =>
                /\ resp'[w].status = 201
                /\ store' = Append(store, store'[Len(store')])
                /\ store'[Len(store')].slug = req[w].payload.slug
                /\ resp'[w].body.id = IdStr(store'[Len(store')]._id) ]_vars

\* two stored Listings with one slug, both requests answered 201
C9_Witness ==
    \E i, j \in 1..Len(store) :
        /\ i # j
        /\ store[i].slug = store[j].slug
        /\ \E v, w \in Workers :
            /\ v # w
            /\ resp[v].op = "create" /\ resp[v].status = 201
            /\ resp[w].op = "create" /\ resp[w].status = 201
            /\ resp[v].body.id = IdStr(store[i]._id)
            /\ resp[w].body.id = IdStr(store[j]._id)

\* worker w inserts a sample
SeedInsertStep(w) == pc[w] = "seed_insert" /\ seedIdx'[w] = seedIdx[w] + 1

\* C10: every insert of a seed request is into a collection that holds only
\* the Listings that request has inserted.
C10_SeedOnlyIfEmpty ==
    [][ \A w \in Workers :
            SeedInsertStep(w) => Fields(store) = SubSeq(Samples, 1, seedIdx[w]) ]_vars

====
